---- MODULE Spec2Model ----
(***************************************************************************)
(* Model of radish's feature-file parser (src/radish/parser.py,            *)
(* FeatureParser) and of the Scenario Outline expansion                    *)
(* (src/radish/scenariooutline.py, ScenarioOutline).                       *)
(*                                                                         *)
(* A text is a sequence of tokens.  A token stands for one character or    *)
(* for one word written without whitespace, "(" or ")"; the token " " is   *)
(* the only whitespace.  Python's None is the empty sequence <<>> and a    *)
(* value v that may be None is the one-element sequence <<v>>.             *)
(***************************************************************************)
EXTENDS Integers, Sequences, FiniteSets, TLC

\* ------------------------------------------------------------ bounds
\* Longest document (number of physical lines) the parser is run on.
MaxLines == 5
\* Most example rows / template steps of a directly built Scenario Outline.
MaxRows == 2
MaxSteps == 2
\* Most calls of build_scenarios on one outline.
MaxBuilds == 2

\* ------------------------------------------------------------ state
VARIABLES
    \* FeatureParser: the fields of the parser object
    current_state, current_line, current_tags, current_preconditions,
    current_variables, in_step_text, feature, keywords,
    \* parse(): "parsing" while lines are read, "done" after a successful
    \* return, "raised" after an exception left parse(); raised is the exception
    pc, raised,
    \* parse(): the line last read, stripped (the loop variable line)
    last_line,
    \* a ScenarioOutline built by its constructor, and the calls of its
    \* build_scenarios so far
    outline, builds,
    \* the order in which the interpreter iterates a dict
    dict_order,
    \* the feature files on disk (file name -> physical lines), and the
    \* message the interpreter puts in the RuntimeError of its recursion limit
    files, limit_message

vars == <<current_state, current_line, current_tags, current_preconditions,
          current_variables, in_step_text, feature, keywords, pc, raised,
          last_line, outline, builds, dict_order, files, limit_message>>

\* ------------------------------------------------------------ str methods
None == <<>>
Some(v) == <<v>>

startswith(s, prefix) ==
    Len(s) >= Len(prefix) /\ SubSeq(s, 1, Len(prefix)) = prefix

endswith(s, suffix) ==
    Len(s) >= Len(suffix) /\ SubSeq(s, Len(s) - Len(suffix) + 1, Len(s)) = suffix

RECURSIVE lstrip(_)
lstrip(s) == IF s # <<>> /\ Head(s) = " " THEN lstrip(Tail(s)) ELSE s

RECURSIVE rstrip(_)
rstrip(s) ==
    IF s # <<>> /\ s[Len(s)] = " " THEN rstrip(SubSeq(s, 1, Len(s) - 1)) ELSE s

\* str.strip(): leading and trailing whitespace removed.
strip(s) == rstrip(lstrip(s))

\* s[n:]
From(s, n) == SubSeq(s, n + 1, Len(s))

\* str.split(sep) for a one-token separator: the list of the pieces between
\* the separators (k separators give k + 1 pieces, empty ones included).
RECURSIVE split(_, _)
split(s, sep) ==
    IF \E i \in 1..Len(s) : s[i] = sep
    THEN LET i == CHOOSE j \in 1..Len(s) :
                      s[j] = sep /\ \A k \in 1..(j - 1) : s[k] # sep
         IN  <<SubSeq(s, 1, i - 1)>> \o split(From(s, i), sep)
    ELSE <<s>>

\* str.replace(old, new) for a non-empty old: every non-overlapping
\* occurrence, found from the left, is replaced; the scan resumes after the
\* replaced occurrence, so the inserted text is not scanned again.
RECURSIVE replace(_, _, _)
replace(s, old, new) ==
    IF Len(s) < Len(old) THEN s
    ELSE IF startswith(s, old)
         THEN new \o replace(From(s, Len(old)), old, new)
         ELSE <<Head(s)>> \o replace(Tail(s), old, new)

\* Decimal digits.
Digits == <<"0", "1", "2", "3", "4", "5", "6", "7", "8", "9">>
IsDigit(t) == \E d \in 1..10 : Digits[d] = t
DigitValue(t) == (CHOOSE d \in 1..10 : Digits[d] = t) - 1

\* int(text) for a text of digits.
RECURSIVE int(_)
int(s) == IF s = <<>> THEN 0
          ELSE 10 * int(SubSeq(s, 1, Len(s) - 1)) + DigitValue(s[Len(s)])

\* str(n) for a natural number
RECURSIVE str(_)
str(n) == IF n < 10 THEN <<Digits[n + 1]>>
          ELSE str(n \div 10) \o <<Digits[(n % 10) + 1]>>

\* [x.strip() for x in line.split("|")[1:-1]]
cells(line) ==
    LET parts == split(line, "|")
    IN  [i \in 1..(Len(parts) - 2) |-> strip(parts[i + 1])]

\* ------------------------------------------------------------ keywords
\* The languages with a keyword file, and their keyword tables (the files
\* <LANGUAGE_LOCATION>/<language>.json read by _load_language).
SupportedLanguages == {<<"en">>, <<"de">>}

Keywords(language) ==
    IF language = <<"de">>
    THEN [feature |-> <<"Funktionalitaet">>, scenario |-> <<"Szenario">>,
          scenario_outline |-> <<"Szenario", " ", "Auslagerung">>,
          examples |-> <<"Beispiele">>,
          scenario_loop |-> <<"Szenario", " ", "Schleife">>,
          iterations |-> <<"Iterationen">>]
    ELSE [feature |-> <<"Feature">>, scenario |-> <<"Scenario">>,
          scenario_outline |-> <<"Scenario", " ", "Outline">>,
          examples |-> <<"Examples">>,
          scenario_loop |-> <<"Scenario", " ", "Loop">>,
          iterations |-> <<"Iterations">>]

keywords_delimiter == <<":">>

\* Python's truth value of a detector's result: None and "" are false.
Truthy(m) == m # None /\ m[1] # <<>>

\* ------------------------------------------------------------ detectors
detect_feature(kw, line) ==
    IF startswith(line, kw.feature \o keywords_delimiter)
    THEN Some(strip(From(line, Len(kw.feature) + Len(keywords_delimiter))))
    ELSE None

detect_scenario(kw, line) ==
    IF startswith(line, kw.scenario \o keywords_delimiter)
    THEN Some(strip(From(line, Len(kw.scenario) + Len(keywords_delimiter))))
    ELSE None

detect_scenario_outline(kw, line) ==
    IF startswith(line, kw.scenario_outline \o keywords_delimiter)
    THEN Some(strip(From(line, Len(kw.scenario_outline) + Len(keywords_delimiter))))
    ELSE None

detect_examples(kw, line) ==
    startswith(line, kw.examples \o keywords_delimiter)

\* re.search(r"^{} (\d+):(.*)".format(keywords.scenario_loop), line):
\* None, or Some of the pair (sentence, iterations).
detect_scenario_loop(kw, line) ==
    LET pre  == kw.scenario_loop \o <<" ">>
        rest == From(line, Len(pre))
        n    == IF \E i \in 1..Len(rest) : ~IsDigit(rest[i])
                THEN (CHOOSE i \in 1..Len(rest) :
                          ~IsDigit(rest[i]) /\ \A k \in 1..(i - 1) : IsDigit(rest[k])) - 1
                ELSE Len(rest)
    IN  IF startswith(line, pre) /\ n >= 1 /\ n < Len(rest) /\ rest[n + 1] = ":"
        THEN Some([sentence |-> strip(From(rest, n + 1)),
                   iterations |-> int(SubSeq(rest, 1, n))])
        ELSE None

detect_table(line) == startswith(line, <<"|">>)

detect_step_text(line) == startswith(line, <<"\"\"\"">>)

\* re.search("^# language: (.*)", line): None or Some(language)
detect_language(line) ==
    LET pre == <<"#", " ", "language", ":", " ">>
    IN  IF startswith(line, pre) THEN Some(From(line, Len(pre))) ELSE None

\* re.search(r"^@([^\s(]+)(?:\((.*?)\))?", line): None, or Some of the pair
\* (name, argument), the argument None when no "(...)" follows the name.
detect_tag(line) ==
    LET rest == From(line, 1)
        n    == IF \E i \in 1..Len(rest) : rest[i] \in {" ", "("}
                THEN (CHOOSE i \in 1..Len(rest) :
                          rest[i] \in {" ", "("}
                          /\ \A k \in 1..(i - 1) : rest[k] \notin {" ", "("}) - 1
                ELSE Len(rest)
        after == From(rest, n)
        close == IF \E i \in 2..Len(after) : after[i] = ")"
                 THEN CHOOSE i \in 2..Len(after) :
                          after[i] = ")" /\ \A k \in 2..(i - 1) : after[k] # ")"
                 ELSE 0
    IN  IF startswith(line, <<"@">>) /\ n >= 1
        THEN Some([name |-> SubSeq(rest, 1, n),
                   arg  |-> IF after # <<>> /\ after[1] = "(" /\ close > 0
                            THEN Some(SubSeq(after, 2, close - 1))
                            ELSE None])
        ELSE None

\* ------------------------------------------------------------ exceptions
FeatureFileSyntaxError(msg) == [type |-> "FeatureFileSyntaxError", msg |-> msg]
LanguageNotSupportedError == [type |-> "LanguageNotSupportedError", msg |-> "language"]
\* Exceptions of the Python runtime that the parser does not catch.
TypeError == [type |-> "TypeError", msg |-> "unexpected keyword argument 'tags'"]
IndexError == [type |-> "IndexError", msg |-> "list index out of range"]
ValueError == [type |-> "ValueError", msg |-> "need more than 1 value to unpack"]
AttributeError == [type |-> "AttributeError", msg |-> "'NoneType' object has no attribute"]

\* ------------------------------------------------------------ document model
FeatureId == 1

\* Feature(id, keyword, sentence, path, line, tags)
Feature(id, keyword, sentence, line, tags) ==
    [id |-> id, keyword |-> keyword, sentence |-> sentence, line |-> line,
     tags |-> tags, description |-> <<>>, scenarios |-> <<>>, variables |-> <<>>]

\* Tag(name, arg)
Tag(name, arg) == [name |-> name, arg |-> arg]

\* Step(id, sentence, path, line, parent, runable): a new step has an empty
\* table and an empty text block.
Step(id, sentence, line, runable) ==
    [id |-> id, sentence |-> sentence, line |-> line, runable |-> runable,
     table |-> <<>>, raw_text |-> <<>>]

\* The shape shared by Scenario, ScenarioOutline and ScenarioLoop; parsed
\* counts the calls of after_parse.
BaseScenario(type, id, keyword, sentence, line, tags, preconditions) ==
    [type |-> type, id |-> id, keyword |-> keyword, sentence |-> sentence,
     line |-> line, tags |-> tags, preconditions |-> preconditions,
     variables |-> <<>>, steps |-> <<>>, parsed |-> 0,
     example_keyword |-> <<>>, examples_header |-> <<>>, examples |-> <<>>,
     iterations_keyword |-> <<>>, iterations |-> 0, scenarios |-> <<>>]

\* Scenario(id, keyword, sentence, path, line, parent, tags, preconditions)
Scenario(id, keyword, sentence, line, tags, preconditions) ==
    BaseScenario("Scenario", id, keyword, sentence, line, tags, preconditions)

\* ScenarioLoop(id, keyword, iterations_keyword, sentence, path, line, parent,
\*              tags, preconditions)
ScenarioLoop(id, keyword, iterations_keyword, sentence, line, tags, preconditions) ==
    [BaseScenario("ScenarioLoop", id, keyword, sentence, line, tags, preconditions)
        EXCEPT !.iterations_keyword = iterations_keyword]

\* ScenarioOutline.__init__(self, id, keyword, example_keyword, sentence, path,
\* line, parent): the base class is initialised without tags or preconditions.
ScenarioOutline(id, keyword, example_keyword, sentence, line) ==
    [BaseScenario("ScenarioOutline", id, keyword, sentence, line, <<>>, <<>>)
        EXCEPT !.example_keyword = example_keyword]

\* ScenarioOutline.Example(data, path, line)
Example(data, line) == [data |-> data, line |-> line]

\* ExampleScenario(id, keyword, sentence, path, line, parent, example)
ExampleScenario(id, keyword, sentence, line, example) ==
    [id |-> id, keyword |-> keyword, sentence |-> sentence, line |-> line,
     example |-> example, steps |-> <<>>]

\* dict(zip(examples_header, data)): each key with the value of its last
\* insertion; zip stops at the shorter of the two lists.  The items are
\* listed in the order the dict iterates them: the order of first insertion
\* (Python 3.7 and later) or, on the older interpreters the code was written
\* for, an order fixed by the build's hashing (here: the reverse).
zip_dict(header, data) ==
    LET n    == IF Len(header) < Len(data) THEN Len(header) ELSE Len(data)
        last(i) == \A j \in (i + 1)..n : header[j] # header[i]
        first(i) == \A j \in 1..(i - 1) : header[j] # header[i]
        value(k) == data[CHOOSE i \in 1..n : header[i] = k /\ last(i)]
        RECURSIVE items(_)
        items(i) == IF i > n THEN <<>>
                    ELSE (IF first(i)
                          THEN <<[key |-> header[i], value |-> value(header[i])]>>
                          ELSE <<>>) \o items(i + 1)
        ordered == items(1)
    IN  IF dict_order = "insertion" THEN ordered
        ELSE [i \in 1..Len(ordered) |-> ordered[Len(ordered) + 1 - i]]

\* ScenarioOutline._replace_examples_in_sentence(sentence, examples):
\* one str.replace per item of the dict, each applied to the result of the
\* one before.
RECURSIVE replace_examples_in_sentence(_, _)
replace_examples_in_sentence(sentence, examples) ==
    IF examples = <<>> THEN sentence
    ELSE replace_examples_in_sentence(
             replace(sentence, <<"<">> \o Head(examples).key \o <<">">>,
                     Head(examples).value),
             Tail(examples))

\* The step build_scenarios makes of one outlined step for one example.
build_step(step_id, outlined_step, examples, example) ==
    Step(step_id + 1,
         replace_examples_in_sentence(outlined_step.sentence, examples),
         example.line, FALSE)

\* The scenario build_scenarios makes of the example of row row_id.
build_scenario(self, row_id) ==
    LET example  == self.examples[row_id + 1]
        examples == zip_dict(self.examples_header, example.data)
        scenario == ExampleScenario(self.id + row_id, self.keyword,
                        self.sentence \o <<" ", "-", " ", "row", " ">> \o str(row_id),
                        self.line, example)
    IN  [scenario EXCEPT !.steps =
            [i \in 1..Len(self.steps) |->
                build_step(i - 1, self.steps[i], examples, example)]]

\* build_scenarios with a loop that stops one example early.
build_scenarios_stops_early(self) ==
    [self EXCEPT !.scenarios =
        @ \o [i \in 1..(Len(self.examples) - 1) |-> build_scenario(self, i - 1)]]

\* ScenarioOutline.build_scenarios(self): one scenario per example, appended
\* to self.scenarios.
build_scenarios(self) ==
    [self EXCEPT !.scenarios =
        @ \o [i \in 1..Len(self.examples) |-> build_scenario(self, i - 1)]]

\* ScenarioLoop: the scenarios of a loop, one per iteration, each with the
\* loop's steps, runnable.
build_loop_scenarios(self) ==
    [self EXCEPT !.scenarios =
        @ \o [i \in 1..self.iterations |->
                [id |-> self.id + (i - 1), iteration |-> i - 1,
                 steps |-> [k \in 1..Len(self.steps) |->
                               [self.steps[k] EXCEPT !.runable = TRUE]]]]]

\* Scenario.after_parse(): the scenario is complete; an outline or a loop
\* builds its scenarios.
after_parse(scenario) ==
    LET done == [scenario EXCEPT !.parsed = @ + 1]
    IN  IF scenario.type = "ScenarioOutline" THEN build_scenarios(done)
        ELSE IF scenario.type = "ScenarioLoop" THEN build_loop_scenarios(done)
        ELSE done

\* Feature.__contains__(sentence): a scenario of the feature has the sentence.
feature_contains(f, sentence) ==
    \E i \in 1..Len(f.scenarios) : f.scenarios[i].sentence = sentence

\* Feature.__getitem__(sentence): the first scenario with the sentence.
feature_getitem(f, sentence) ==
    f.scenarios[CHOOSE i \in 1..Len(f.scenarios) :
                    /\ f.scenarios[i].sentence = sentence
                    /\ \A k \in 1..(i - 1) : f.scenarios[k].sentence # sentence]

\* Scenario.all_steps: the steps of the scenario.
all_steps(scenario) == scenario.steps

\* ------------------------------------------------------------ FeatureParser
\* What a method hands back: the parser object after the call, the value
\* returned, and the exception raised (None when it returned).
Return(self, value) == [self |-> self, ret |-> value, raised |-> None]
Raise(self, exception) == [self |-> self, ret |-> FALSE, raised |-> Some(exception)]

\* self.feature.scenarios[-1]
last_scenario(self) == self.feature[1].scenarios[Len(self.feature[1].scenarios)]

\* self with self.feature.scenarios[-1] replaced by scenario
with_last_scenario(self, scenario) ==
    [self EXCEPT !.feature[1].scenarios[Len(self.feature[1].scenarios)] = scenario]

\* _parse_variable(arguments): name and value, or the exception of
\* None.split or of unpacking a one-element list.
parse_variable(arguments) ==
    IF arguments = None THEN [raised |-> Some(AttributeError), pair |-> <<>>]
    ELSE LET parts == split(arguments[1], ":")
             i     == Len(parts[1])
         IN  IF Len(parts) < 2 THEN [raised |-> Some(ValueError), pair |-> <<>>]
             ELSE [raised |-> None,
                   pair |-> <<strip(parts[1]), strip(From(arguments[1], i + 1))>>]

\* re.search(r"(.*?\.feature): (.*)", arguments): None, or Some of the pair
\* (feature_file_name, scenario_sentence).
precondition_match(a) ==
    LET ok(i) == /\ a[i] = ".feature" /\ i + 2 <= Len(a)
                 /\ a[i + 1] = ":" /\ a[i + 2] = " "
    IN  IF ~\E i \in 1..Len(a) : ok(i) THEN None
        ELSE LET i == CHOOSE j \in 1..Len(a) : ok(j) /\ \A k \in 1..(j - 1) : ~ok(k)
             IN  Some([feature_file_name |-> SubSeq(a, 1, i),
                       scenario_sentence |-> From(a, i + 2)])

\* The cycling-preconditions error of _parse_precondition with the four
\* things its message names.
CyclingPreconditions(featurefile, feature_file_name, scenario_sentence, line) ==
    [type |-> "FeatureFileSyntaxError", msg |-> "cycling preconditions",
     featurefile |-> featurefile, feature_file_name |-> feature_file_name,
     scenario_sentence |-> scenario_sentence, line |-> line]

\* _parse_precondition(arguments); core is what self._core.parse_feature
\* does for the named file: it returns a feature or raises an exception.
parse_precondition(self, arguments, core) ==
    IF arguments = None
    THEN [raised |-> Some([type |-> "TypeError", msg |-> "expected string or buffer"]),
          scenario |-> <<>>]
    ELSE LET match == precondition_match(arguments[1])
             feature_file_name == match[1].feature_file_name
             scenario_sentence == match[1].scenario_sentence
         IN  IF match = None
             THEN [raised |-> Some(FeatureFileSyntaxError("precondition argument format")),
                   scenario |-> <<>>]
             ELSE IF core.raised # None
             THEN IF /\ core.raised[1].type = "RuntimeError"
                     /\ core.raised[1].msg = "maximum recursion depth exceeded"
                  THEN [raised |-> Some(CyclingPreconditions(self.featurefile,
                                            feature_file_name, scenario_sentence,
                                            self.current_line)),
                        scenario |-> <<>>]
                  ELSE [raised |-> core.raised, scenario |-> <<>>]
             ELSE IF ~feature_contains(core.feature, scenario_sentence)
             THEN [raised |-> Some(FeatureFileSyntaxError("no such precondition scenario")),
                   scenario |-> <<>>]
             ELSE [raised |-> None,
                   scenario |-> Some(feature_getitem(core.feature, scenario_sentence))]

\* _parse_feature(line)
parse_feature(self, line) ==
    LET detected_feature == detect_feature(self.keywords, line)
        tag == detect_tag(line)
    IN  IF ~Truthy(detected_feature)
        THEN IF tag # None
             THEN LET tagged == [self EXCEPT !.current_tags =
                                     Append(@, Tag(tag[1].name, tag[1].arg))]
                      v == parse_variable(tag[1].arg)
                  IN  IF tag[1].name = <<"variable">>
                      THEN IF v.raised # None THEN Raise(tagged, v.raised[1])
                           ELSE Return([tagged EXCEPT !.current_variables =
                                            Append(@, v.pair)], TRUE)
                      ELSE Return(tagged, TRUE)
             ELSE Return(self, FALSE)
        ELSE Return([self EXCEPT
                        !.feature = Some([Feature(FeatureId, self.keywords.feature,
                                                  detected_feature[1], self.current_line,
                                                  self.current_tags)
                                            EXCEPT !.variables = self.current_variables]),
                        !.current_state = "scenario",
                        !.current_tags = <<>>,
                        !.current_variables = <<>>], TRUE)

\* The call scenario_type(scenario_id, *keywords, sentence=..., path=...,
\* line=..., parent=..., tags=..., preconditions=...) of _parse_scenario:
\* None when the constructor does not take the arguments.  Scenario and
\* ScenarioLoop take tags and preconditions; ScenarioOutline.__init__ has no
\* such parameters, so the call raises TypeError.
construct(scenario_type, scenario_id, kw, sentence, line, tags, preconditions) ==
    IF scenario_type = "Scenario"
    THEN Some(Scenario(scenario_id, kw.scenario, sentence, line, tags, preconditions))
    ELSE IF scenario_type = "ScenarioLoop"
    THEN Some(ScenarioLoop(scenario_id, kw.scenario_loop, kw.iterations, sentence,
                           line, tags, preconditions))
    ELSE None

\* The test of _parse_scenario left out.
defined_twice_unchecked(self, detected_scenario) == FALSE

\* The test "detected_scenario in self.feature" of _parse_scenario
defined_twice(self, detected_scenario) ==
    feature_contains(self.feature[1], detected_scenario)

\* scenario_id of _parse_scenario
next_scenario_id(scenarios) ==
    LET previous_scenario == scenarios[Len(scenarios)]
    IN  Len(scenarios) + 1
        + (IF scenarios = <<>> THEN 0
           ELSE IF previous_scenario.type = "ScenarioOutline"
                THEN Len(previous_scenario.examples)
           ELSE IF previous_scenario.type = "ScenarioLoop"
                THEN previous_scenario.iterations
           ELSE 0)

\* The pending buffers left as they are after a construction.
not_cleared(self) == self

\* self._current_tags = []; self._current_preconditions = [];
\* self._current_variables = [] of _parse_scenario
cleared(self) ==
    [self EXCEPT !.current_tags = <<>>,
                 !.current_preconditions = <<>>,
                 !.current_variables = <<>>]

\* _parse_scenario(line)
parse_scenario(self, line, core) ==
    LET kw       == self.keywords
        plain    == detect_scenario(kw, line)
        outlined == detect_scenario_outline(kw, line)
        loop     == detect_scenario_loop(kw, line)
        tag      == detect_tag(line)
        f        == self.feature[1]
        scenario_type == IF Truthy(plain) THEN "Scenario"
                         ELSE IF Truthy(outlined) THEN "ScenarioOutline"
                         ELSE "ScenarioLoop"
        detected_scenario == IF Truthy(plain) THEN plain[1]
                             ELSE IF Truthy(outlined) THEN outlined[1]
                             ELSE loop[1].sentence
        scenario_id == next_scenario_id(f.scenarios)
        made == construct(scenario_type, scenario_id, kw, detected_scenario,
                          self.current_line, self.current_tags,
                          self.current_preconditions)
        scenario == [made[1] EXCEPT
                        !.variables = self.current_variables,
                        !.iterations = IF scenario_type = "ScenarioLoop"
                                       THEN loop[1].iterations ELSE @]
        tagged == [self EXCEPT !.current_tags = Append(@, Tag(tag[1].name, tag[1].arg))]
        p == parse_precondition(self, tag[1].arg, core)
        v == parse_variable(tag[1].arg)
    IN  IF ~Truthy(plain) /\ ~Truthy(outlined) /\ loop = None
        THEN IF tag # None
             THEN IF tag[1].name = <<"precondition">>
                  THEN IF p.raised # None THEN Raise(tagged, p.raised[1])
                       ELSE Return([tagged EXCEPT !.current_preconditions =
                                        Append(@, p.scenario[1])], TRUE)
                  ELSE IF tag[1].name = <<"variable">>
                  THEN IF v.raised # None THEN Raise(tagged, v.raised[1])
                       ELSE Return([tagged EXCEPT !.current_variables =
                                        Append(@, v.pair)], TRUE)
                  ELSE Return(tagged, TRUE)
             ELSE Return([self EXCEPT !.feature[1].description = Append(@, line)], TRUE)
        ELSE IF defined_twice(self, detected_scenario)
        THEN Raise(self, FeatureFileSyntaxError("scenario defined twice"))
        ELSE IF made = None
        THEN Raise(self, TypeError)
        ELSE Return([cleared(self) EXCEPT
                        !.feature[1].scenarios = Append(@, scenario),
                        !.current_state = "step"], TRUE)

\* _parse_examples(line)
parse_examples(self, line) ==
    IF last_scenario(self).type # "ScenarioOutline"
    THEN Raise(self, FeatureFileSyntaxError("scenario does not support examples"))
    ELSE Return([with_last_scenario(self,
                    [last_scenario(self) EXCEPT !.examples_header = cells(line)])
                 EXCEPT !.current_state = "examples_row"], TRUE)

\* self after self.feature.scenarios[-1].after_parse()
finalized(self) == with_last_scenario(self, after_parse(last_scenario(self)))

\* _parse_examples_row(line)
parse_examples_row(self, line, core) ==
    IF \/ Truthy(detect_scenario(self.keywords, line))
       \/ Truthy(detect_scenario_outline(self.keywords, line))
       \/ detect_scenario_loop(self.keywords, line) # None
    THEN parse_scenario(finalized(self), line, core)
    ELSE Return(with_last_scenario(self,
                    [last_scenario(self) EXCEPT !.examples =
                        Append(@, Example(cells(line), self.current_line))]), TRUE)

\* _parse_table without the check for a previous step.
parse_table_unchecked(self, line) ==
    IF last_scenario(self).steps = <<>>
    THEN Return(self, TRUE)
    ELSE Return(with_last_scenario(self,
                    [last_scenario(self) EXCEPT
                        !.steps[Len(last_scenario(self).steps)].table =
                            Append(@, cells(line))]), TRUE)

\* _parse_table(line)
parse_table(self, line) ==
    IF last_scenario(self).steps = <<>>
    THEN Raise(self, FeatureFileSyntaxError("step table without previous step"))
    ELSE Return(with_last_scenario(self,
                    [last_scenario(self) EXCEPT
                        !.steps[Len(last_scenario(self).steps)].table =
                            Append(@, cells(line))]), TRUE)

\* _parse_step_text(line)
parse_step_text(self, line) ==
    LET quotes == <<"\"\"\"">>
        opens  == startswith(line, quotes) /\ ~self.in_step_text
        line1  == IF opens THEN From(line, 1) ELSE line
        in1    == IF opens THEN TRUE ELSE self.in_step_text
        closes == endswith(line1, quotes) /\ in1
        line2  == IF closes THEN SubSeq(line1, 1, Len(line1) - 1) ELSE line1
        self2  == [self EXCEPT !.in_step_text = IF closes THEN FALSE ELSE in1,
                               !.current_state = IF closes THEN "step" ELSE @]
    IN  IF line2 # <<>>
        THEN IF last_scenario(self).steps = <<>>
             THEN Raise(self2, IndexError)
             ELSE Return(with_last_scenario(self2,
                             [last_scenario(self) EXCEPT
                                 !.steps[Len(last_scenario(self).steps)].raw_text =
                                     Append(@, strip(line2))]), TRUE)
        ELSE Return(self2, TRUE)

\* _parse_step that hands every line to _parse_scenario, without the test
\* for the next construct.
parse_step_without_test(self, line, core) == parse_scenario(self, line, core)

\* _parse_step(line)
parse_step(self, line, core) ==
    LET scenario     == last_scenario(self)
        step_id      == Len(all_steps(scenario)) + 1
        not_runable  == scenario.type \in {"ScenarioOutline", "ScenarioLoop"}
        step         == Step(step_id, line, self.current_line, ~not_runable)
        table        == parse_table(self, line)
    IN  IF \/ Truthy(detect_scenario(self.keywords, line))
           \/ Truthy(detect_scenario_outline(self.keywords, line))
           \/ detect_scenario_loop(self.keywords, line) # None
           \/ detect_tag(line) # None
        THEN parse_scenario(finalized(self), line, core)
        ELSE IF detect_step_text(line)
        THEN parse_step_text([self EXCEPT !.current_state = "step_text"], line)
        ELSE IF detect_table(line)
        THEN IF table.raised # None THEN table ELSE Return(table.self, TRUE)
        ELSE IF detect_examples(self.keywords, line)
        THEN Return([self EXCEPT !.current_state = "examples"], TRUE)
        ELSE Return(with_last_scenario(self,
                        [scenario EXCEPT !.steps = Append(@, step)]), TRUE)

\* _parse_context(line): the handler named after the current state
parse_context(self, line, core) ==
    CASE self.current_state = "feature"      -> parse_feature(self, line)
      [] self.current_state = "scenario"     -> parse_scenario(self, line, core)
      [] self.current_state = "step"         -> parse_step(self, line, core)
      [] self.current_state = "examples"     -> parse_examples(self, line)
      [] self.current_state = "examples_row" -> parse_examples_row(self, line, core)
      [] self.current_state = "step_text"    -> parse_step_text(self, line)

\* ------------------------------------------------------------ inputs
Quotes == "\"\"\""

\* The physical lines a document is made of (before line.strip()).
Lines ==
    { <<"Feature", ":", " ", "F">>,
      <<"Feature", ":">>,
      <<"Scenario", ":", " ", "A">>,
      <<"Scenario", ":", " ", "B">>,
      <<"Scenario", " ", "Outline", ":", " ", "A">>,
      <<"Scenario", " ", "Loop", " ", "2", ":", " ", "C">>,
      <<"@", "t">>,
      <<"Examples", ":">>,
      <<" ", "|", " ", "x", " ", "|">>,
      <<Quotes>>,
      <<" ", "Given", " ", "s">>,
      <<>>,
      <<"#", " ", "c">> }

\* What self._core.parse_feature can do for the file a precondition names:
\* return the parsed feature of that file, or fail with the recursion limit.
PreconditionFeature ==
    [Feature(2, <<"Feature">>, <<"G">>, 1, <<>>) EXCEPT
        !.scenarios = <<Scenario(1, <<"Scenario">>, <<"P">>, 2, <<>>, <<>>)>>]

CoreResults ==
    { [raised |-> None, feature |-> PreconditionFeature],
      [raised |-> Some([type |-> "RuntimeError",
                        msg |-> "maximum recursion depth exceeded"]),
       feature |-> PreconditionFeature] }

\* ------------------------------------------------------------ parse()
\* The file the parser was constructed for (self._featurefile).
FeatureFile == <<"a", ".feature">>

\* The parser object as a record, and back.
Self ==
    [current_state |-> current_state, current_line |-> current_line,
     current_tags |-> current_tags, current_preconditions |-> current_preconditions,
     current_variables |-> current_variables, in_step_text |-> in_step_text,
     feature |-> feature, keywords |-> keywords, featurefile |-> FeatureFile]

Becomes(self) ==
    /\ current_state' = self.current_state
    /\ current_line' = self.current_line
    /\ current_tags' = self.current_tags
    /\ current_preconditions' = self.current_preconditions
    /\ current_variables' = self.current_variables
    /\ in_step_text' = self.in_step_text
    /\ feature' = self.feature
    /\ keywords' = self.keywords

\* FeatureParser.__init__(core, featurefile, featureid, language="en")
InitParser ==
    /\ current_state = "feature"
    /\ current_line = 0
    /\ current_tags = <<>>
    /\ current_preconditions = <<>>
    /\ current_variables = <<>>
    /\ in_step_text = FALSE
    /\ feature = None
    /\ keywords = Keywords(<<"en">>)
    /\ pc = "parsing"
    /\ raised = None
    /\ last_line = <<>>

NoOutline == ScenarioOutline(0, <<>>, <<>>, <<>>, 0)

\* No file but the parsed one is read.
NoFiles == <<>>

\* RuntimeError's message when a Python function call exceeds the limit
RecursionDepthExceeded == "maximum recursion depth exceeded"

Init ==
    /\ InitParser
    /\ outline = NoOutline
    /\ builds = 0
    /\ dict_order = "insertion"
    /\ files = NoFiles
    /\ limit_message = RecursionDepthExceeded

\* The line counted and stripped.
Counted == [Self EXCEPT !.current_line = @ + 1]

CanRead == pc = "parsing" /\ current_line < MaxLines

\* An empty line is skipped.
SkipEmptyLine(raw) ==
    /\ CanRead
    /\ strip(raw) = <<>>
    /\ last_line' = strip(raw)
    /\ Becomes(Counted)
    /\ UNCHANGED <<pc, raised, outline, builds, dict_order,
                   files, limit_message>>

\* _load_language that leaves the keywords of the parser as they are.
load_language_keeps_keywords(self, language) ==
    IF language \notin SupportedLanguages
    THEN Raise(self, LanguageNotSupportedError)
    ELSE Return(self, TRUE)

\* _load_language(language), called for a language pragma
load_language(self, language) ==
    IF language \notin SupportedLanguages
    THEN Raise(self, LanguageNotSupportedError)
    ELSE Return([self EXCEPT !.keywords = Keywords(language)], TRUE)

\* A comment line: a language pragma loads the keywords of its language.
ReadComment(raw) ==
    LET stripped == strip(raw)
        language == detect_language(stripped)
        loaded   == IF Truthy(language) THEN load_language(Counted, language[1])
                    ELSE Return(Counted, TRUE)
    IN  /\ CanRead
        /\ last_line' = stripped
        /\ startswith(stripped, <<"#">>)
        /\ Becomes(loaded.self)
        /\ raised' = loaded.raised
        /\ pc' = IF loaded.raised # None THEN "raised" ELSE pc
        /\ UNCHANGED <<outline, builds, dict_order,
                   files, limit_message>>

\* A second feature in the file.
RejectSecondFeature(raw) ==
    LET stripped == strip(raw)
    IN  /\ CanRead
        /\ last_line' = stripped
        /\ stripped # <<>> /\ ~startswith(stripped, <<"#">>)
        /\ feature # None /\ Truthy(detect_feature(keywords, stripped))
        /\ Becomes(Counted)
        /\ raised' = Some(FeatureFileSyntaxError("only one feature per file"))
        /\ pc' = "raised"
        /\ UNCHANGED <<outline, builds, dict_order,
                   files, limit_message>>

\* Any other line goes to the handler of the current state; a handler that
\* returns False is a syntax error.
ParseContext(raw, core) ==
    LET stripped == strip(raw)
        r    == parse_context(Counted, stripped, core)
    IN  /\ CanRead
        /\ last_line' = stripped
        /\ stripped # <<>> /\ ~startswith(stripped, <<"#">>)
        /\ ~(feature # None /\ Truthy(detect_feature(keywords, stripped)))
        /\ Becomes(r.self)
        /\ raised' = IF r.raised # None THEN r.raised
                     ELSE IF ~r.ret THEN Some(FeatureFileSyntaxError("syntax error"))
                     ELSE None
        /\ pc' = IF r.raised # None \/ ~r.ret THEN "raised" ELSE pc
        /\ UNCHANGED <<outline, builds, dict_order,
                   files, limit_message>>

\* The end of the file without a feature.
NoFeatureFound ==
    /\ pc = "parsing"
    /\ feature = None
    /\ raised' = Some(FeatureFileSyntaxError("no feature found"))
    /\ pc' = "raised"
    /\ UNCHANGED <<current_state, current_line, current_tags, current_preconditions,
                   current_variables, in_step_text, feature, keywords,
                   last_line, outline, builds, dict_order,
                   files, limit_message>>

\* The end of the file with the call of after_parse left out.
EndOfFileWithoutAfterParse ==
    /\ pc = "parsing"
    /\ feature # None
    /\ pc' = "done"
    /\ UNCHANGED <<current_state, current_line, current_tags, current_preconditions,
                   current_variables, in_step_text, feature, keywords,
                   raised, last_line, outline, builds, dict_order,
                   files, limit_message>>

\* The end of the file: the last scenario, if any, is completed.
EndOfFile ==
    /\ pc = "parsing"
    /\ feature # None
    /\ Becomes(IF feature[1].scenarios # <<>> THEN finalized(Self) ELSE Self)
    /\ pc' = "done"
    /\ UNCHANGED <<raised, last_line, outline, builds, dict_order,
                   files, limit_message>>

Next ==
    \/ \E raw \in Lines : SkipEmptyLine(raw)
    \/ \E raw \in Lines : ReadComment(raw)
    \/ \E raw \in Lines : RejectSecondFeature(raw)
    \/ \E raw \in Lines, core \in CoreResults : ParseContext(raw, core)
    \/ NoFeatureFound
    \/ EndOfFile

Spec == Init /\ [][Next]_vars

\* ------------------------------------------------------------ core
\* self._core.parse_feature(path): the collaborator handed to the parser.  It
\* constructs a FeatureParser for the file, runs parse() and returns the
\* feature; what the nested parser raises reaches the caller.  Each nested
\* parse takes stack frames, and the interpreter raises RuntimeError when a
\* call exceeds its recursion limit.

\* Most parses nested inside the parse of FeatureFile that the interpreter's
\* recursion limit leaves room for.
RecursionLimit == 2

RuntimeError(msg) == [type |-> "RuntimeError", msg |-> msg]
OSError == [type |-> "OSError", msg |-> "Feature file does not exist"]

\* The messages of the RuntimeError of the recursion limit: the bare one when
\* the limit is hit by the call of a Python function, a longer one when it is
\* hit inside a call made by the interpreter itself.
RecursionMessages ==
    { RecursionDepthExceeded,
      "maximum recursion depth exceeded while calling a Python object" }

\* The parser object after FeatureParser.__init__(core, featurefile, featureid)
new_parser(featurefile) ==
    [current_state |-> "feature", current_line |-> 0, current_tags |-> <<>>,
     current_preconditions |-> <<>>, current_variables |-> <<>>,
     in_step_text |-> FALSE, feature |-> None, keywords |-> Keywords(<<"en">>),
     featurefile |-> featurefile]

\* "if not self._parse_context(line): raise FeatureFileSyntaxError(...)" for
\* the outcome r of _parse_context
syntax_checked(r) ==
    IF r.raised = None /\ ~r.ret
    THEN Raise(r.self, FeatureFileSyntaxError("syntax error"))
    ELSE r

\* One turn of the loop of parse() for the physical line raw.
read_line(self, raw, core) ==
    LET counted  == [self EXCEPT !.current_line = @ + 1]
        line     == strip(raw)
        language == detect_language(line)
    IN  IF line = <<>> THEN Return(counted, TRUE)
        ELSE IF startswith(line, <<"#">>)
        THEN IF Truthy(language) THEN load_language(counted, language[1])
             ELSE Return(counted, TRUE)
        ELSE IF counted.feature # None /\ Truthy(detect_feature(counted.keywords, line))
        THEN Raise(counted, FeatureFileSyntaxError("only one feature per file"))
        ELSE syntax_checked(parse_context(counted, line, core))

\* parse() after the loop
end_of_file(self) ==
    IF self.feature = None
    THEN Raise(self, FeatureFileSyntaxError("no feature found"))
    ELSE Return(IF self.feature[1].scenarios # <<>> THEN finalized(self) ELSE self, TRUE)

\* The file a line makes _parse_precondition hand to the core: None when the
\* line is no precondition tag with a well-formed argument.
precondition_file(line) ==
    LET tag == detect_tag(line)
    IN  IF tag = None THEN None
        ELSE IF tag[1].name # <<"precondition">> \/ tag[1].arg = None THEN None
        ELSE IF precondition_match(tag[1].arg[1]) = None THEN None
        ELSE Some(precondition_match(tag[1].arg[1])[1].feature_file_name)

NoFeature == Feature(0, <<>>, <<>>, 0, <<>>)
NoCore == [raised |-> None, feature |-> NoFeature]

\* What core.parse_feature hands back for the outcome r of parse(): the
\* exception that left parse(), or the parser's feature.
core_result(r) ==
    [raised |-> r.raised,
     feature |-> IF r.raised = None THEN r.self.feature[1] ELSE NoFeature]

RECURSIVE parse_file(_, _, _, _)
RECURSIVE read_lines(_, _, _, _, _)

\* The loop of parse() after a turn with outcome r: an exception leaves it
next_line(r, fs, i, depth, msg) ==
    IF r.raised # None THEN r ELSE read_lines(r.self, fs, i, depth, msg)

\* parse() of a nested parser from line i of its file on
read_lines(self, fs, i, depth, msg) ==
    LET document == fs[self.featurefile]
        target   == precondition_file(strip(document[i]))
        core     == IF target = None THEN NoCore
                    ELSE parse_file(fs, target[1], depth + 1, msg)
    IN  IF i > Len(document) THEN end_of_file(self)
        ELSE next_line(read_line(self, document[i], core), fs, i + 1, depth, msg)

\* core.parse_feature(path) called from a parser nested depth - 1 deep
parse_file(fs, path, depth, msg) ==
    IF depth > RecursionLimit
    THEN [raised |-> Some(RuntimeError(msg)), feature |-> NoFeature]
    ELSE IF path \notin DOMAIN fs
    THEN [raised |-> Some(OSError), feature |-> NoFeature]
    ELSE core_result(read_lines(new_parser(path), fs, 1, depth, msg))

\* ------------------------------------------------------------ files
\* Feature files a.feature (the parsed one) and b.feature in one directory.
OtherFile == <<"b", ".feature">>

FeatureF == <<"Feature", ":", " ", "F">>
ScenarioP == <<"Scenario", ":", " ", "P">>
ScenarioQ == <<"Scenario", ":", " ", "Q">>
GivenS == <<" ", "Given", " ", "s">>
Precondition(file, sentence) ==
    <<"@", "precondition", "(", file, ".feature", ":", " ", sentence, ")">>

DocumentsA ==
    { <<FeatureF, Precondition("b", "P"), ScenarioQ>>,
      <<FeatureF, Precondition("b", "P"), Precondition("b", "Q"), ScenarioQ>>,
      <<FeatureF, Precondition("b", "Q"), Precondition("b", "P"), ScenarioQ>>,
      <<FeatureF, ScenarioP, Precondition("a", "P"), ScenarioQ>>,
      <<FeatureF, ScenarioP, Precondition("b", "P"), ScenarioQ>>,
      <<FeatureF, ScenarioP, GivenS, Precondition("b", "P"), ScenarioQ>>,
      <<FeatureF, Precondition("b", "P"),
        <<"Scenario", " ", "Loop", " ", "2", ":", " ", "Q">>>>,
      <<FeatureF, Precondition("b", "R"), ScenarioQ>>,
      <<FeatureF, Precondition("c", "P"), ScenarioQ>>,
      <<<<>>, <<"#", " ", "c">>, FeatureF, FeatureF>>,
      <<<<"#", " ", "c">>, <<"@", "t">>>> }

DocumentsB ==
    { <<FeatureF, ScenarioP, ScenarioQ>>,
      <<FeatureF, ScenarioP, Precondition("a", "P"), ScenarioQ>>,
      <<FeatureF, ScenarioP, GivenS, Precondition("a", "Q"), ScenarioQ>> }

FileSystems ==
    { (FeatureFile :> a) @@ (OtherFile :> b) : a \in DocumentsA, b \in DocumentsB }

InitFiles ==
    /\ InitParser
    /\ outline = NoOutline
    /\ builds = 0
    /\ dict_order = "insertion"
    /\ files \in FileSystems
    /\ limit_message \in RecursionMessages

\* The next physical line of the parsed file, if any.
NextLine ==
    IF current_line < Len(files[FeatureFile])
    THEN {files[FeatureFile][current_line + 1]} ELSE {}

\* What self._core.parse_feature does for the file the line names.
CoreResult(raw) ==
    LET target == precondition_file(strip(raw))
    IN  IF target = None THEN NoCore
        ELSE parse_file(files, target[1], 1, limit_message)

NextFiles ==
    \/ \E raw \in NextLine : SkipEmptyLine(raw)
    \/ \E raw \in NextLine : ReadComment(raw)
    \/ \E raw \in NextLine : RejectSecondFeature(raw)
    \/ \E raw \in NextLine : ParseContext(raw, CoreResult(raw))
    \/ NextLine = {} /\ NoFeatureFound
    \/ NextLine = {} /\ EndOfFile

SpecFiles == InitFiles /\ [][NextFiles]_vars

\* What parse() of the whole file gives, computed in one piece.
Parsed == read_lines(new_parser(FeatureFile), files, 1, 0, limit_message)

\* The parser that reads line by line ends as the parse computed in one piece.
ParseAgrees ==
    pc # "parsing" =>
        /\ raised = Parsed.raised
        /\ (raised = None => feature = Parsed.self.feature)

\* ------------------------------------------------------------ loops
\* Documents with Scenario Loops of two and of no iterations.
LoopLines ==
    { FeatureF,
      <<"Scenario", ":", " ", "A">>,
      <<"Scenario", ":", " ", "B">>,
      <<"Scenario", " ", "Loop", " ", "2", ":", " ", "C">>,
      <<"Scenario", " ", "Loop", " ", "0", ":", " ", "D">>,
      GivenS,
      <<>>,
      <<"#", " ", "c">> }

NextLoop ==
    \/ \E raw \in LoopLines : SkipEmptyLine(raw)
    \/ \E raw \in LoopLines : ReadComment(raw)
    \/ \E raw \in LoopLines : RejectSecondFeature(raw)
    \/ \E raw \in LoopLines : ParseContext(raw, NoCore)
    \/ NoFeatureFound
    \/ EndOfFile

SpecLoop == Init /\ [][NextLoop]_vars

\* ------------------------------------------------------------ languages
\* Documents with language pragmas and headers in English and in German.
Language(code) == <<"#", " ", "language", ":", " ">> \o code

LanguageLines ==
    { FeatureF,
      <<"Scenario", ":", " ", "A">>,
      <<"Szenario", ":", " ", "B">>,
      GivenS,
      <<Quotes>>,
      Language(<<"de">>),
      Language(<<"en">>),
      Language(<<"xx">>),
      <<>> }

NextLanguage ==
    \/ \E raw \in LanguageLines : SkipEmptyLine(raw)
    \/ \E raw \in LanguageLines : ReadComment(raw)
    \/ \E raw \in LanguageLines : RejectSecondFeature(raw)
    \/ \E raw \in LanguageLines : ParseContext(raw, NoCore)
    \/ NoFeatureFound
    \/ EndOfFile

SpecLanguage == Init /\ [][NextLanguage]_vars

\* ------------------------------------------------------------ text blocks
\* Documents with text blocks: the delimiter alone, before a text, after a
\* text and on both sides of a text.
TextLines ==
    { FeatureF,
      <<"Scenario", ":", " ", "A">>,
      GivenS,
      <<" ", Quotes>>,
      <<Quotes, "x">>,
      <<"y", " ", Quotes>>,
      <<Quotes, " ", "z", Quotes>>,
      <<"@", "t">>,
      <<>>,
      <<"#", " ", "c">> }

NextText ==
    \/ \E raw \in TextLines : SkipEmptyLine(raw)
    \/ \E raw \in TextLines : ReadComment(raw)
    \/ \E raw \in TextLines : RejectSecondFeature(raw)
    \/ \E raw \in TextLines : ParseContext(raw, NoCore)
    \/ NoFeatureFound
    \/ EndOfFile

SpecText == Init /\ [][NextText]_vars

\* ------------------------------------------------------------ tags
\* Documents with plain, variable and precondition tags before the feature,
\* a scenario, a loop and an outline.
TagLines ==
    { FeatureF,
      <<"Scenario", ":", " ", "A">>,
      <<"Scenario", " ", "Loop", " ", "2", ":", " ", "C">>,
      <<"Scenario", " ", "Outline", ":", " ", "O">>,
      <<"@", "t">>,
      <<"@", "variable", "(", "x", ":", " ", "1", ")">>,
      Precondition("b", "P"),
      GivenS,
      <<>>,
      <<"#", " ", "c">> }

NextTags ==
    \/ \E raw \in TagLines : SkipEmptyLine(raw)
    \/ \E raw \in TagLines : ReadComment(raw)
    \/ \E raw \in TagLines : RejectSecondFeature(raw)
    \/ \E raw \in TagLines, core \in CoreResults : ParseContext(raw, core)
    \/ NoFeatureFound
    \/ EndOfFile

SpecTags == Init /\ [][NextTags]_vars

\* ------------------------------------------------------------ expansion
\* Scenario Outlines built by the constructor and filled as the parser fills
\* a scenario (steps, examples_header, examples), then expanded.
SeqsUpTo(S, n) == UNION {[1..k -> S] : k \in 0..n}

StepSentences == { <<"x">>, <<"<", "a", ">", "<", "b", ">">>, <<"<", "a", ">", " ", "x">> }

Headers == { <<<<"a">>>>, <<<<"a">>, <<"b">>>>, <<<<"a">>, <<"a">>>> }

Rows == { <<<<"1">>>>, <<<<"<", "b", ">">>, <<"2">>>>, <<<<"1">>, <<"<", "a", ">">>>> }

\* The steps of an outline: not runnable, some with a table and a text block.
OutlinedSteps ==
    { [i \in 1..Len(q) |->
          [Step(i, q[i].sentence, 2 + i, FALSE) EXCEPT
              !.table = IF q[i].more THEN <<<<<<"c">>>>, <<<<"d">>>>>> ELSE <<>>,
              !.raw_text = IF q[i].more THEN <<<<"t">>, <<"u">>>> ELSE <<>>]] :
        q \in SeqsUpTo([sentence : StepSentences, more : BOOLEAN], MaxSteps) }

Outlines ==
    { [ScenarioOutline(id, <<"Scenario", " ", "Outline">>, <<"Examples">>, <<"O">>, 2)
          EXCEPT !.steps = steps,
                 !.examples_header = header,
                 !.examples = [i \in 1..Len(rows) |-> Example(rows[i], 10 + i)]] :
        id \in {1, 4}, steps \in OutlinedSteps, header \in Headers,
        rows \in SeqsUpTo(Rows, MaxRows) }

InitBuild ==
    /\ InitParser
    /\ outline \in Outlines
    /\ builds = 0
    /\ dict_order \in {"insertion", "reversed"}
    /\ files = NoFiles
    /\ limit_message = RecursionDepthExceeded

\* A call of outline.build_scenarios()
BuildScenarios ==
    /\ builds < MaxBuilds
    /\ outline' = build_scenarios(outline)
    /\ builds' = builds + 1
    /\ UNCHANGED <<current_state, current_line, current_tags, current_preconditions,
                   current_variables, in_step_text, feature, keywords, pc, raised,
                   last_line, dict_order, files, limit_message>>

NextBuild == BuildScenarios

SpecBuild == InitBuild /\ [][NextBuild]_vars

\* ------------------------------------------------------------ properties
\* The scenarios of the parsed feature (none before the feature header).
Scenarios == IF feature = None THEN <<>> ELSE feature[1].scenarios

\* The identifiers of the scenarios built from entry s (none for a plain
\* scenario).
BuiltIds(s) == {s.scenarios[i].id : i \in 1..Len(s.scenarios)}

\* The line last read is a header that names a Scenario Outline.
OutlineHeaderRead ==
    /\ ~Truthy(detect_scenario(keywords, last_line))
    /\ Truthy(detect_scenario_outline(keywords, last_line))

\* C1: a Scenario Outline header gives the feature a Scenario Outline with an
\* identifier k; the scenario built from its example row i has identifier
\* k + i, and the scenario declared right after an outline with R example rows
\* has identifier k + R.
C1_OutlineIdsCarryForward ==
    /\ raised # Some(TypeError)
    /\ \A n \in 1..Len(Scenarios) :
          Scenarios[n].type = "ScenarioOutline" =>
              /\ \A i \in 1..Len(Scenarios[n].scenarios) :
                    Scenarios[n].scenarios[i].id = Scenarios[n].id + (i - 1)
              /\ n < Len(Scenarios) =>
                    Scenarios[n + 1].id = Scenarios[n].id + Len(Scenarios[n].examples)

\* C2: the identifiers of the feature's scenarios are strictly increasing in
\* declaration order, and no identifier of an entry or of a scenario built
\* from it is the identifier of a later entry or of a scenario built from a
\* later entry.
C2_IdsGloballySequential ==
    \A m \in 1..Len(Scenarios) : \A n \in (m + 1)..Len(Scenarios) :
        /\ Scenarios[m].id < Scenarios[n].id
        /\ ({Scenarios[m].id} \cup BuiltIds(Scenarios[m]))
              \cap ({Scenarios[n].id} \cup BuiltIds(Scenarios[n])) = {}

\* The sentence with every placeholder <key> of the dict replaced by the
\* key's value in one pass from the left: replaced text is not read again.
RECURSIVE substituted_at_once(_, _)
substituted_at_once(sentence, examples) ==
    LET at(i) == startswith(sentence, <<"<">> \o examples[i].key \o <<">">>)
    IN  IF sentence = <<>> THEN <<>>
        ELSE IF \E i \in 1..Len(examples) : at(i)
        THEN LET i == CHOOSE j \in 1..Len(examples) : at(j)
             IN  examples[i].value
                 \o substituted_at_once(From(sentence, Len(examples[i].key) + 2), examples)
        ELSE <<Head(sentence)>> \o substituted_at_once(Tail(sentence), examples)

\* C3: one call of build_scenarios on an outline with S steps and R examples
\* gives R scenarios in the order of the examples; the i-th belongs to the
\* i-th example, is named "<outline sentence> - row i" (i from 0) and has S
\* steps numbered 1..S in the order of the outline's steps.
C3_ExpansionShape ==
    builds = 1 =>
        /\ Len(outline.scenarios) = Len(outline.examples)
        /\ \A i \in 1..Len(outline.scenarios) :
              LET scenario == outline.scenarios[i]
              IN  /\ scenario.example = outline.examples[i]
                  /\ scenario.sentence =
                         outline.sentence \o <<" ", "-", " ", "row", " ">> \o str(i - 1)
                  /\ Len(scenario.steps) = Len(outline.steps)
                  /\ \A k \in 1..Len(scenario.steps) :
                        /\ scenario.steps[k].id = k
                        /\ (\A t \in 1..Len(outline.steps[k].sentence) :
                                outline.steps[k].sentence[t] # "<")
                               => scenario.steps[k].sentence = outline.steps[k].sentence

\* C3 witness: an outline with two steps and two examples, expanded once.
C3_Witness ==
    /\ builds = 1
    /\ Len(outline.steps) = 2 /\ Len(outline.examples) = 2
    /\ Len(outline.scenarios) = 2
    /\ outline.steps[1].sentence # outline.steps[2].sentence

\* C4: the sentence of every built step is the outlined step's sentence with
\* the placeholders replaced in a single simultaneous substitution.
C4_SimultaneousSubstitution ==
    builds >= 1 =>
        \A i \in 1..Len(outline.scenarios) : \A k \in 1..Len(outline.scenarios[i].steps) :
            outline.scenarios[i].steps[k].sentence =
                substituted_at_once(outline.steps[k].sentence,
                    zip_dict(outline.examples_header, outline.scenarios[i].example.data))

\* C5: every step of a built scenario is runnable and no step of the outline
\* itself is.
C5_BuiltStepsRunnable ==
    builds >= 1 =>
        /\ \A i \in 1..Len(outline.scenarios) :
              \A k \in 1..Len(outline.scenarios[i].steps) :
                  outline.scenarios[i].steps[k].runable
        /\ \A k \in 1..Len(outline.steps) : ~outline.steps[k].runable

\* C6: every built step has the table rows and the text lines of the
\* outlined step it was made of.
C6_TableAndTextKept ==
    builds >= 1 =>
        \A i \in 1..Len(outline.scenarios) :
            \A k \in 1..Len(outline.scenarios[i].steps) :
                /\ outline.scenarios[i].steps[k].table = outline.steps[k].table
                /\ outline.scenarios[i].steps[k].raw_text = outline.steps[k].raw_text

\* A step of parse() that reads one more line (last_line' is that line).
ReadsLine == pc = "parsing" /\ current_line' = current_line + 1

\* The sentence of the scenario, outline or loop header that the detectors
\* find on the line; None when they find no header.
HeaderSentence(kw, l) ==
    IF Truthy(detect_scenario(kw, l)) THEN detect_scenario(kw, l)
    ELSE IF Truthy(detect_scenario_outline(kw, l)) THEN detect_scenario_outline(kw, l)
    ELSE IF detect_scenario_loop(kw, l) # None
         THEN Some(detect_scenario_loop(kw, l)[1].sentence)
    ELSE None

\* The line read in this step is a header with the sentence of a scenario
\* that the feature already has.
ReadsDuplicateHeader ==
    /\ ReadsLine
    /\ HeaderSentence(keywords, last_line') # None
    /\ \E n \in 1..Len(Scenarios) :
          Scenarios[n].sentence = HeaderSentence(keywords, last_line')[1]

DefinedTwice == Some(FeatureFileSyntaxError("scenario defined twice"))

\* C7 as claimed: whenever a line is a header with the sentence of a scenario
\* already in the feature, parse() raises the defined-twice error and appends
\* no scenario.
C7_DuplicateAlwaysRejected ==
    [][ReadsDuplicateHeader =>
           raised' = DefinedTwice /\ Len(Scenarios') = Len(Scenarios)]_vars

\* C7 amended: whenever such a line is read in state SCENARIO, STEP or
\* EXAMPLES_ROW (the states whose handlers look for a header), parse() raises
\* the defined-twice error and the feature's scenario list keeps its length.
C7_DuplicateRejectedByScenarioHandler ==
    [][(ReadsDuplicateHeader
            /\ current_state \in {"scenario", "step", "examples_row"}) =>
           raised' = DefinedTwice /\ Len(Scenarios') = Len(Scenarios)]_vars

\* C7 witness: an outline header with the sentence of a plain scenario of the
\* feature was rejected.
C7_Witness ==
    /\ raised = DefinedTwice
    /\ OutlineHeaderRead
    /\ \E n \in 1..Len(Scenarios) :
          /\ Scenarios[n].type = "Scenario"
          /\ Scenarios[n].sentence = HeaderSentence(keywords, last_line)[1]

\* C8: once the feature exists, every later line that is not a comment and
\* starts with the feature keyword and ":" makes parse() raise the
\* one-feature error; the document is left as it was.
C8_SecondFeatureAlwaysRejected ==
    [][(/\ ReadsLine
        /\ feature # None
        /\ startswith(last_line', keywords.feature \o keywords_delimiter)) =>
           /\ raised' = Some(FeatureFileSyntaxError("only one feature per file"))
           /\ feature' = feature]_vars

\* C9: parse() never returns normally in state EXAMPLES with a last scenario
\* that is not a Scenario Outline (an examples marker after a plain scenario
\* or a loop always ends in the examples error).
C9_ExamplesOnlyForOutlines ==
    ~(/\ pc = "done"
      /\ current_state = "examples"
      /\ last_scenario(Self).type # "ScenarioOutline")

\* C10: in state STEP a line that starts with "|" raises the table error and
\* leaves the feature unchanged when the last scenario has no step; otherwise
\* its cells become one more row of the table of the last step of the last
\* scenario, and nothing else in the feature changes.
C10_TableRowGoesToLastStep ==
    [][(ReadsLine /\ current_state = "step" /\ detect_table(last_line')) =>
           IF last_scenario(Self).steps = <<>>
           THEN /\ raised' = Some(FeatureFileSyntaxError(
                                     "step table without previous step"))
                /\ feature' = feature
           ELSE /\ raised' = None
                /\ feature' =
                     [feature EXCEPT
                        ![1].scenarios[Len(Scenarios)]
                            .steps[Len(last_scenario(Self).steps)].table =
                                Append(@, cells(last_line'))]]_vars

\* C10 witness: a table row was read after the second step of a scenario and
\* is in the table of that step, not of the first.
C10_Witness ==
    /\ raised = None
    /\ detect_table(last_line)
    /\ Scenarios # <<>>
    /\ Len(last_scenario(Self).steps) = 2
    /\ last_scenario(Self).steps[1].table = <<>>
    /\ last_scenario(Self).steps[2].table = <<cells(last_line)>>

\* The file has a scenario, outline or loop header with the sentence.
FileHasScenario(file, sentence) ==
    /\ file \in DOMAIN files
    /\ \E k \in 1..Len(files[file]) :
          HeaderSentence(Keywords(<<"en">>), strip(files[file][k])) = Some(sentence)

\* The line read in this step, after the Feature header and by a handler that
\* looks for tags of scenarios, is a precondition tag that names a file and
\* the sentence of a scenario of that file.
ReadsResolvablePrecondition ==
    /\ ReadsLine
    /\ feature # None
    /\ current_state \in {"scenario", "step"}
    /\ precondition_file(last_line') # None
    /\ FileHasScenario(precondition_file(last_line')[1],
                       precondition_match(detect_tag(last_line')[1].arg[1])[1]
                           .scenario_sentence)

\* C11: every precondition tag that names a file and the sentence of a
\* scenario of that file is resolved without an error and the scenario is
\* appended to the pending preconditions, also when the file is the parsed
\* file itself or has a precondition pointing back to it; a scenario
\* constructed next gets the pending preconditions in the order of their tags.
C11_PreconditionResolves ==
    [][/\ ReadsResolvablePrecondition =>
            /\ raised' = None
            /\ Len(current_preconditions') = Len(current_preconditions) + 1
            /\ SubSeq(current_preconditions', 1, Len(current_preconditions))
                   = current_preconditions
            /\ current_preconditions'[Len(current_preconditions')].sentence =
                   precondition_match(detect_tag(last_line')[1].arg[1])[1]
                       .scenario_sentence
       /\ (ReadsLine /\ Len(Scenarios') = Len(Scenarios) + 1) =>
            Scenarios'[Len(Scenarios')].preconditions = current_preconditions]_vars

\* The file has a precondition tag, read after its Feature header, that
\* names the other file.
PointsTo(file, other) ==
    \E k \in 2..Len(files[file]) :
        /\ detect_feature(Keywords(<<"en">>), strip(files[file][1])) # None
        /\ precondition_file(strip(files[file][k])) = Some(other)

\* a.feature has a precondition in b.feature and b.feature one in a.feature.
MutualPreconditions ==
    PointsTo(FeatureFile, OtherFile) /\ PointsTo(OtherFile, FeatureFile)

\* C12: when a.feature has a precondition tag pointing to b.feature and
\* b.feature one pointing to a.feature, parse() of a.feature ends with the
\* cycling-preconditions FeatureFileSyntaxError: it neither returns normally
\* nor lets the RuntimeError of the recursion limit reach its caller.
C12_CycleIsCyclingError ==
    (MutualPreconditions /\ pc # "parsing") =>
        /\ raised # None
        /\ raised[1].type = "FeatureFileSyntaxError"
        /\ raised[1].msg = "cycling preconditions"

\* The line read in this step is a Scenario Loop header with count 0, read by
\* a handler that looks for scenario headers, with a sentence no scenario of
\* the feature has.
ReadsEmptyLoopHeader ==
    /\ ReadsLine
    /\ feature # None
    /\ current_state \in {"scenario", "step"}
    /\ detect_scenario_loop(keywords, last_line') # None
    /\ detect_scenario_loop(keywords, last_line')[1].iterations = 0
    /\ \A n \in 1..Len(Scenarios) :
          Scenarios[n].sentence # detect_scenario_loop(keywords, last_line')[1].sentence

\* C13: a Scenario Loop header with count 0 is accepted and gives a loop with
\* iterations = 0 and no built scenario, and the scenario declared right after
\* such a loop has the loop's identifier plus one, wherever the loop stands.
C13_EmptyLoopKeepsNumbering ==
    [][/\ ReadsEmptyLoopHeader =>
            /\ raised' = None
            /\ Len(Scenarios') = Len(Scenarios) + 1
            /\ Scenarios'[Len(Scenarios')].type = "ScenarioLoop"
            /\ Scenarios'[Len(Scenarios')].iterations = 0
       /\ \A n \in 1..Len(Scenarios') :
            (Scenarios'[n].type = "ScenarioLoop" /\ Scenarios'[n].iterations = 0) =>
                /\ Scenarios'[n].scenarios = <<>>
                /\ n < Len(Scenarios') => Scenarios'[n + 1].id = Scenarios'[n].id + 1]_vars

\* The language named by the pragma on the line read in this step; None when
\* the line is no pragma.
PragmaRead ==
    IF ReadsLine /\ startswith(last_line', <<"#">>) /\ Truthy(detect_language(last_line'))
    THEN detect_language(last_line') ELSE None

\* C14: a pragma for a supported language read after at least one scenario
\* replaces the keyword table and changes neither the parser's state, its
\* pending buffers nor the feature parsed so far; the table stays until the
\* next pragma, and a line that is no header in the current table never adds
\* a scenario while a header of the current table read in state SCENARIO or
\* STEP adds one or is rejected.  A pragma for an unsupported language ends
\* parse() with the unsupported-language error.
C14_PragmaSwitchesKeywords ==
    [][/\ (PragmaRead # None /\ Scenarios # <<>>
               /\ PragmaRead[1] \in SupportedLanguages) =>
            /\ raised' = None /\ pc' = "parsing"
            /\ keywords' = Keywords(PragmaRead[1])
            /\ UNCHANGED <<current_state, current_tags, current_preconditions,
                           current_variables, in_step_text, feature>>
       /\ (PragmaRead # None /\ PragmaRead[1] \notin SupportedLanguages) =>
            /\ raised' = Some(LanguageNotSupportedError) /\ pc' = "raised"
            /\ feature' = feature
       /\ (ReadsLine /\ PragmaRead = None) =>
            /\ keywords' = keywords
            /\ HeaderSentence(keywords, last_line') = None =>
                   Len(Scenarios') = Len(Scenarios)
            /\ (HeaderSentence(keywords, last_line') # None
                    /\ feature # None /\ current_state \in {"scenario", "step"}) =>
                   (Len(Scenarios') = Len(Scenarios) + 1 \/ raised' # None)]_vars

\* C14 witness: after a scenario with the English keyword and a pragma for
\* German, an English header line was read as a step and a German header
\* line gave the second scenario.
C14_Witness ==
    /\ raised = None
    /\ keywords = Keywords(<<"de">>)
    /\ Len(Scenarios) = 2
    /\ Scenarios[1].keyword = <<"Scenario">>
    /\ Scenarios[1].steps # <<>>
    /\ Scenarios[1].steps[1].sentence = <<"Scenario", ":", " ", "A">>
    /\ Scenarios[2].keyword = <<"Szenario">>

\* The step in which parse() leaves its loop at the end of the input.
EndOfInput == pc = "parsing" /\ pc' # "parsing" /\ current_line' = current_line

\* C15: a blank line, a comment or a tag read before the Feature header
\* constructs no Feature; at the end of the input parse() raises the
\* no-feature error when no Feature was constructed; otherwise it returns
\* normally, and the last scenario, if there is one, has had one more call of
\* after_parse while the scenarios before it are as they were.
C15_EndOfInput ==
    [][/\ (ReadsLine /\ feature = None /\ raised' = None
               /\ (last_line' = <<>> \/ startswith(last_line', <<"#">>)
                       \/ detect_tag(last_line') # None)) =>
            feature' = None
       /\ EndOfInput =>
            IF feature = None
            THEN /\ raised' = Some(FeatureFileSyntaxError("no feature found"))
                 /\ pc' = "raised"
                 /\ feature' = None
            ELSE /\ raised' = None
                 /\ pc' = "done"
                 /\ Len(Scenarios') = Len(Scenarios)
                 /\ Scenarios = <<>> => feature' = feature
                 /\ \A n \in 1..Len(Scenarios) :
                       IF n = Len(Scenarios)
                       THEN /\ Scenarios'[n].parsed = Scenarios[n].parsed + 1
                            /\ Scenarios'[n].steps = Scenarios[n].steps
                       ELSE Scenarios'[n] = Scenarios[n]]_vars

\* C15 witness: parse() returned at the end of a document with two scenarios,
\* the last of them a loop completed there.
C15_Witness ==
    /\ pc = "done"
    /\ Len(Scenarios) = 2
    /\ Scenarios[1].parsed = 1
    /\ Scenarios[2].type = "ScenarioLoop"
    /\ Scenarios[2].parsed = 1
    /\ Len(Scenarios[2].scenarios) = 2

\* C16: when parse() has returned normally, after_parse has been called
\* exactly once on every scenario of the feature.
C16_FinalizedExactlyOnce ==
    pc = "done" => \A n \in 1..Len(Scenarios) : Scenarios[n].parsed = 1

\* C17: the steps of a scenario on which after_parse has been called (for a
\* header or a tag read in state STEP), with their tables and text blocks,
\* are the same after every later step of parse().
C17_FinalizedStepsFrozen ==
    [][\A n \in 1..Len(Scenarios) :
           Scenarios[n].parsed >= 1 => Scenarios'[n].steps = Scenarios[n].steps]_vars

\* The line read in this step, after the Feature header and outside a text
\* block, is a tag line.
ReadsTagLine ==
    /\ ReadsLine
    /\ feature # None
    /\ current_state # "step_text"
    /\ detect_tag(last_line') # None

\* C18: every tag line read after the Feature header (after steps, after an
\* examples marker, after example rows) is appended to the pending tags and
\* changes no step, examples header or example row of any scenario; a
\* scenario constructed later gets the pending tags in the order of their
\* lines.
C18_TagLinesAreBuffered ==
    [][/\ ReadsTagLine =>
            /\ raised' = None
            /\ current_tags' = Append(current_tags,
                                      Tag(detect_tag(last_line')[1].name,
                                          detect_tag(last_line')[1].arg))
            /\ Len(Scenarios') = Len(Scenarios)
            /\ \A n \in 1..Len(Scenarios) :
                  /\ Scenarios'[n].steps = Scenarios[n].steps
                  /\ Scenarios'[n].examples_header = Scenarios[n].examples_header
                  /\ Scenarios'[n].examples = Scenarios[n].examples
       /\ (ReadsLine /\ Len(Scenarios') = Len(Scenarios) + 1) =>
            Scenarios'[Len(Scenarios')].tags = current_tags]_vars

\* The line read in this step is neither blank nor a comment.
ReadsContentLine ==
    ReadsLine /\ last_line' # <<>> /\ ~startswith(last_line', <<"#">>)

\* The feature with the text added to the text block of the last step of the
\* last scenario (an empty text adds nothing).
WithText(text) ==
    IF text = <<>> THEN feature
    ELSE [feature EXCEPT
             ![1].scenarios[Len(Scenarios)]
                 .steps[Len(Scenarios[Len(Scenarios)].steps)].raw_text =
                     Append(@, strip(text))]

\* The line l without a closing delimiter at its end.
Unclosed(l) == IF endswith(l, <<Quotes>>) THEN SubSeq(l, 1, Len(l) - 1) ELSE l

\* C19: in state STEP a line that starts with the delimiter opens a text
\* block on the last step; that line and every following line that is neither
\* blank nor a comment adds its text (delimiters removed, trimmed) to the
\* text of that step and changes nothing else, and the line that ends with
\* the delimiter closes the block and brings the parser back to STEP (the
\* opening line itself when it also ends with the delimiter).  After every
\* line the state is STEP_TEXT exactly when a block is open.
C19_TextBlockProtocol ==
    [][/\ (ReadsContentLine /\ current_state = "step"
               /\ detect_step_text(last_line')) =>
            /\ raised' = None
            /\ in_step_text' = ~endswith(From(last_line', 1), <<Quotes>>)
            /\ current_state' = IF in_step_text' THEN "step_text" ELSE "step"
            /\ feature' = WithText(Unclosed(From(last_line', 1)))
            /\ UNCHANGED <<current_tags, current_preconditions, current_variables>>
       /\ (ReadsContentLine /\ current_state = "step_text") =>
            /\ raised' = None
            /\ in_step_text' = ~endswith(last_line', <<Quotes>>)
            /\ current_state' = IF in_step_text' THEN "step_text" ELSE "step"
            /\ feature' = WithText(Unclosed(last_line'))
            /\ UNCHANGED <<current_tags, current_preconditions, current_variables>>
       /\ ReadsLine => (current_state' = "step_text" <=> in_step_text')]_vars

\* The pending buffers are empty after this step.
BuffersEmptied ==
    current_tags' = <<>> /\ current_preconditions' = <<>> /\ current_variables' = <<>>

\* C20: the step that constructs the Feature, and every step that appends a
\* scenario to the feature, leaves the pending tags, preconditions and
\* variables empty, and the construct has what was pending before the step.
C20_BuffersEmptyAfterConstruction ==
    [][/\ (ReadsLine /\ feature = None /\ feature' # None) =>
            /\ BuffersEmptied
            /\ feature'[1].tags = current_tags
            /\ feature'[1].variables = current_variables
       /\ (ReadsLine /\ Len(Scenarios') = Len(Scenarios) + 1) =>
            /\ BuffersEmptied
            /\ Scenarios'[Len(Scenarios')].tags = current_tags
            /\ Scenarios'[Len(Scenarios')].preconditions = current_preconditions
            /\ Scenarios'[Len(Scenarios')].variables = current_variables]_vars

\* C20 witness: a feature with one tag and a scenario with a plain tag, a
\* variable and a precondition have been constructed; nothing is pending.
C20_Witness ==
    /\ raised = None
    /\ Len(Scenarios) = 1
    /\ Len(feature[1].tags) = 1
    /\ Len(Scenarios[1].tags) = 2
    /\ Len(Scenarios[1].preconditions) = 1
    /\ Len(Scenarios[1].variables) = 1
    /\ current_tags = <<>> /\ current_preconditions = <<>> /\ current_variables = <<>>

\* The description of the feature (empty before the feature header).
Description == IF feature = None THEN <<>> ELSE feature[1].description

\* C21: after every line read, the state is FEATURE exactly when no Feature
\* exists; in state SCENARIO the Feature exists and has no scenario, and the
\* state is entered from FEATURE only; in states STEP, EXAMPLES, EXAMPLES_ROW
\* and STEP_TEXT the feature has a scenario; and a line read when the
\* feature has a scenario leaves the Feature's description as it was.
C21_StateMatchesDocument ==
    [][ReadsLine =>
           /\ current_state' = "feature" <=> feature' = None
           /\ current_state' = "scenario" =>
                 /\ feature' # None /\ Scenarios' = <<>>
                 /\ current_state \in {"feature", "scenario"}
           /\ current_state' \in {"step", "examples", "examples_row", "step_text"} =>
                 Scenarios' # <<>>
           /\ Scenarios # <<>> => Description' = Description]_vars

\* C21 witness: a feature with a description line and two scenarios, read up
\* to an examples marker.
C21_Witness ==
    /\ raised = None
    /\ current_state = "examples"
    /\ Len(Description) = 1
    /\ Len(Scenarios) = 2

====
